---------------------------- MODULE Spec2Model ----------------------------
(***************************************************************************)
(* waVES API v2.0 (src/main.py): the temporal rate ledger.                 *)
(*                                                                         *)
(*   calcular_vigencia   effective date of a rate downloaded now           *)
(*   guardar_tasa        SELECT, then UPDATE or INSERT, then commit        *)
(*   limpiar_datos_antiguos   DELETE of rows older than 100 days           *)
(*   actualizar_tasas    BCV fetch, two records, Binance fetch, one record *)
(*   trigger_update, consultar_smart   the two HTTP handlers               *)
(*                                                                         *)
(* Dates are day ordinals (0 = Monday 2024-01-01); the text the code       *)
(* stores and compares (strftime, SQLite TEXT) is a sequence of character  *)
(* codes, compared character by character as SQLite and Python do.         *)
(***************************************************************************)
EXTENDS Integers, Sequences, FiniteSets, TLC

VARIABLES
    ahora,          \* the wall clock, what datetime.now() returns
    historial,      \* the committed rows of table historial
    seq,            \* AUTOINCREMENT: the largest id ever given
    candado,        \* the thread holding SQLite's write lock, or NULL
    fecha_limite,   \* limpiar_datos_antiguos: the last limit computed
    proceso,        \* "iniciando" once init_db has run, "sirviendo" in uvicorn.run
    pc,             \* per request thread: its position in the code
    handler,        \* per thread: the endpoint it is serving
    args,           \* per thread: consultar_smart's fecha, fuente, moneda,
                    \* from the request until their last use
    source, currency, rate,       \* per thread: guardar_tasa's parameters
    effective_date, fetched_at,   \* per thread: guardar_tasa's locals
    existe,         \* per thread: the id SELECT found, or NULL
    txn,            \* per thread: the uncommitted write of its connection
    eur,            \* per thread: actualizar_tasas' local eur
    ret,            \* per thread: where guardar_tasa returns to
    resp,           \* per thread: the HTTP response, or NULL
    ultimo,         \* history: per (source, currency), the last record
                    \* operation that committed before the current one
    impreso         \* per thread: "[ERROR] Guardando DB" went to stdout
                    \* while serving the current request

vars == <<ahora, historial, seq, candado, fecha_limite, proceso, pc, handler,
          args, source, currency, rate, effective_date, fetched_at, existe, txn,
          eur, ret, resp, ultimo, impreso>>

NULL == "NULL"

-----------------------------------------------------------------------------
(* Bounds of the model *)

\* rows the model lets the table ever receive (the AUTOINCREMENT counter)
MaxId == 3

\* the request threads of the server (FastAPI runs sync handlers in a pool)
H1 == "h1"
H2 == "h2"
Hilos == {H1, H2}

\* rates the fetches may deliver
Tasas == {1, 2}

\* the instants the clock visits in Spec and SpecConc, as <<day ordinal,
\* hour, minute, second>>: Fri 2024-05-03 at the weekly cut-off, Sat 05-04,
\* and Mon 2024-08-12, 100 days after that Saturday
Momentos == {<<123, 15, 30, 0>>, <<124, 10, 0, 0>>, <<224, 10, 0, 0>>}

\* the week SpecVig enumerates minute by minute: Mon 2024-04-29 .. Sun 05-05
DiasVig == 119..125

\* requested dates of /api/consultar: Fri 05-03, Sun 05-05, Mon 05-06
FechasConsulta == {123, 125, 126}

-----------------------------------------------------------------------------
(* datetime and strftime *)

EsBisiesto(y) == (y % 4 = 0 /\ y % 100 # 0) \/ y % 400 = 0

DiasDelMes(y, m) ==
    IF m = 2 THEN (IF EsBisiesto(y) THEN 29 ELSE 28)
    ELSE IF m \in {4, 6, 9, 11} THEN 30 ELSE 31

\* the calendar date of ordinal n, counting from y-m-01 = ordinal 0
RECURSIVE FechaDesde(_, _, _)
FechaDesde(y, m, n) ==
    IF n < DiasDelMes(y, m) THEN [year |-> y, month |-> m, day |-> n + 1]
    ELSE IF m = 12 THEN FechaDesde(y + 1, 1, n - DiasDelMes(y, m))
    ELSE FechaDesde(y, m + 1, n - DiasDelMes(y, m))

FechaDe(n) == FechaDesde(2024, 1, n)

\* zero-padded decimal text, as character codes ("0" is 48)
Dig2(n) == <<48 + ((n \div 10) % 10), 48 + (n % 10)>>
Dig4(n) == <<48 + ((n \div 1000) % 10), 48 + ((n \div 100) % 10)>> \o Dig2(n)

\* strftime("%Y-%m-%d") of a day ordinal ("-" is 45)
strftime_fecha(n) ==
    LET f == FechaDe(n)
    IN  Dig4(f.year) \o <<45>> \o Dig2(f.month) \o <<45>> \o Dig2(f.day)

\* strftime("%Y-%m-%d %H:%M:%S") (" " is 32, ":" is 58)
strftime_ts(now) ==
    strftime_fecha(now.dia) \o <<32>> \o Dig2(now.hour) \o <<58>>
        \o Dig2(now.minute) \o <<58>> \o Dig2(now.second)

\* datetime.weekday(): Monday is 0; ordinal 0 is a Monday
weekday(now) == now.dia % 7

\* TEXT comparison of SQLite (BINARY collation): a < b
RECURSIVE TextLt(_, _)
TextLt(a, b) ==
    IF b = <<>> THEN FALSE
    ELSE IF a = <<>> THEN TRUE
    ELSE IF Head(a) # Head(b) THEN Head(a) < Head(b)
    ELSE TextLt(Tail(a), Tail(b))

TextLe(a, b) == a = b \/ TextLt(a, b)

\* str.upper() on the source and currency names requests use
upper(s) ==
    CASE s = "bcv" -> "BCV"
      [] s = "binance" -> "BINANCE"
      [] s = "usd" -> "USD"
      [] s = "eur" -> "EUR"
      [] s = "usdt" -> "USDT"
      [] OTHER -> s

-----------------------------------------------------------------------------
(* calcular_vigencia *)

calcular_vigencia_viernes_estricto(src, now) ==
    LET hoy_str == strftime_fecha(now.dia)
    IN  IF src = "BINANCE" THEN hoy_str
        ELSE IF src = "BCV" THEN
            IF weekday(now) = 4
               /\ (now.hour > 15 \/ (now.hour = 15 /\ now.minute > 30))
            THEN strftime_fecha(now.dia + 3)
            ELSE IF weekday(now) \in {5, 6}
            THEN strftime_fecha(now.dia + (7 - weekday(now)))
            ELSE IF now.hour >= 16
            THEN strftime_fecha(now.dia + 1)
            ELSE hoy_str
        ELSE hoy_str

calcular_vigencia_finde_manana(src, now) ==
    LET hoy_str == strftime_fecha(now.dia)
    IN  IF src = "BINANCE" THEN hoy_str
        ELSE IF src = "BCV" THEN
            IF weekday(now) = 4
               /\ (now.hour > 15 \/ (now.hour = 15 /\ now.minute >= 30))
            THEN strftime_fecha(now.dia + 3)
            ELSE IF weekday(now) \in {5, 6}
            THEN strftime_fecha(now.dia + (6 - weekday(now)))
            ELSE IF now.hour >= 16
            THEN strftime_fecha(now.dia + 1)
            ELSE hoy_str
        ELSE hoy_str

calcular_vigencia_toda_fuente(src, now) ==
    LET hoy_str == strftime_fecha(now.dia)
    IN  IF weekday(now) = 4
           /\ (now.hour > 15 \/ (now.hour = 15 /\ now.minute >= 30))
        THEN strftime_fecha(now.dia + 3)
        ELSE IF weekday(now) \in {5, 6}
        THEN strftime_fecha(now.dia + (7 - weekday(now)))
        ELSE IF now.hour >= 16
        THEN strftime_fecha(now.dia + 1)
        ELSE hoy_str

calcular_vigencia(src, now) ==
    LET hoy_str == strftime_fecha(now.dia)
    IN  IF src = "BINANCE" THEN hoy_str
        ELSE IF src = "BCV" THEN
            IF weekday(now) = 4
               /\ (now.hour > 15 \/ (now.hour = 15 /\ now.minute >= 30))
            THEN strftime_fecha(now.dia + 3)
            ELSE IF weekday(now) \in {5, 6}
            THEN strftime_fecha(now.dia + (7 - weekday(now)))
            ELSE IF now.hour >= 16
            THEN strftime_fecha(now.dia + 1)
            ELSE hoy_str
        ELSE hoy_str

-----------------------------------------------------------------------------
(* The clock *)

Instante(m) == [dia |-> m[1], hour |-> m[2], minute |-> m[3], second |-> m[4]]

Instantes == {Instante(m) : m \in Momentos}

\* every minute of the week of DiasVig
InstantesVig ==
    {[dia |-> d, hour |-> h, minute |-> m, second |-> 0] :
        d \in DiasVig, h \in 0..23, m \in 0..59}

Segundos(now) == ((now.dia * 24 + now.hour) * 60 + now.minute) * 60 + now.second

\* the clock when the program first starts
PrimerInstante ==
    CHOOSE a \in Instantes : \A b \in Instantes : Segundos(a) <= Segundos(b)

\* time passes between any two steps of the program
Tick ==
    /\ \E a \in Instantes : Segundos(a) > Segundos(ahora) /\ ahora' = a
    /\ UNCHANGED <<historial, seq, candado, fecha_limite, proceso, pc,
                   handler, args, source, currency, rate, effective_date,
                   fetched_at, existe, txn, eur, ret, resp, ultimo, impreso>>

-----------------------------------------------------------------------------
(* The table *)

Fila(i, s, c, r, e, f) ==
    [id |-> i, source |-> s, currency |-> c, rate |-> r,
     effective_date |-> e, fetched_at |-> f]

Claves == {<<"BCV", "USD">>, <<"BCV", "EUR">>, <<"BINANCE", "USDT">>}

\* SELECT id FROM historial WHERE source=? AND currency=? AND effective_date=?
select_existe(tabla, s, c, e) ==
    {r \in tabla : r.source = s /\ r.currency = c /\ r.effective_date = e}

\* DELETE FROM historial WHERE effective_date < ?
delete_antiguos_inclusive(tabla, limite) ==
    {r \in tabla : ~ TextLe(r.effective_date, limite)}

\* a DELETE that also removes the row of the smallest id each time it runs
delete_antiguos_y_primera(tabla, limite) ==
    {r \in tabla : /\ ~ TextLt(r.effective_date, limite)
                   /\ \E q \in tabla : q.id < r.id}

delete_antiguos(tabla, limite) ==
    {r \in tabla : ~ TextLt(r.effective_date, limite)}

\* SELECT ... WHERE source=? AND currency=? AND effective_date <= ?
\* ORDER BY effective_date DESC LIMIT 1: the rows fetchone() may return
consulta_fallback_asc(tabla, s, c, fecha) ==
    LET cand == {r \in tabla : /\ r.source = s
                               /\ r.currency = c
                               /\ TextLe(r.effective_date, fecha)}
    IN  {r \in cand :
            \A q \in cand : TextLe(r.effective_date, q.effective_date)}

consulta_fallback_sin_fecha(tabla, s, c, fecha) ==
    LET cand == {r \in tabla : r.source = s /\ r.currency = c}
    IN  {r \in cand :
            \A q \in cand : TextLe(q.effective_date, r.effective_date)}

\* a query that also reads what other connections have written and not
\* yet committed
consulta_fallback_sucia(tabla, s, c, fecha) ==
    LET nuevas == {txn[t].fila : t \in {u \in Hilos : txn[u].op = "insert"}}
        cambia(r) == {u \in Hilos : txn[u].op = "update" /\ txn[u].id = r.id}
        vista == {IF cambia(r) # {}
                     THEN LET w == txn[CHOOSE u \in cambia(r) : TRUE]
                          IN  [r EXCEPT !.rate = w.rate,
                                        !.fetched_at = w.fetched_at]
                     ELSE r : r \in tabla} \cup nuevas
        cand == {r \in vista : /\ r.source = s
                               /\ r.currency = c
                               /\ TextLe(r.effective_date, fecha)}
    IN  {r \in cand :
            \A q \in cand : TextLe(q.effective_date, r.effective_date)}

consulta_fallback(tabla, s, c, fecha) ==
    LET cand == {r \in tabla : /\ r.source = s
                               /\ r.currency = c
                               /\ TextLe(r.effective_date, fecha)}
    IN  {r \in cand :
            \A q \in cand : TextLe(q.effective_date, r.effective_date)}

\* an UPDATE without its WHERE clause: every row takes the new values
aplicar_sin_where(tabla, w) ==
    CASE w.op = "update" ->
            {[r EXCEPT !.rate = w.rate, !.fetched_at = w.fetched_at] :
                r \in tabla}
      [] w.op = "insert" -> tabla \cup {w.fila}
      [] OTHER -> tabla

\* the effect of a connection's pending write when it commits
aplicar(tabla, w) ==
    CASE w.op = "update" ->
            {IF r.id = w.id
                THEN [r EXCEPT !.rate = w.rate, !.fetched_at = w.fetched_at]
                ELSE r : r \in tabla}
      [] w.op = "insert" -> tabla \cup {w.fila}
      [] OTHER -> tabla

-----------------------------------------------------------------------------
(* Initial states *)

\* a thread between requests: no frame, so no parameters and no locals
\* (NULL for a name, 0 for a rate, the empty text, no pending write, no
\* response)
SinEscritura == [op |-> "none"]
SinRespuesta == [status |-> 0]

InitHilos ==
    /\ pc = [t \in Hilos |-> "idle"]
    /\ handler = [t \in Hilos |-> NULL]
    /\ args = [t \in Hilos |-> <<>>]
    /\ source = [t \in Hilos |-> NULL]
    /\ currency = [t \in Hilos |-> NULL]
    /\ rate = [t \in Hilos |-> 0]
    /\ effective_date = [t \in Hilos |-> <<>>]
    /\ fetched_at = [t \in Hilos |-> <<>>]
    /\ existe = [t \in Hilos |-> <<>>]
    /\ txn = [t \in Hilos |-> SinEscritura]
    /\ eur = [t \in Hilos |-> 0]
    /\ ret = [t \in Hilos |-> NULL]
    /\ resp = [t \in Hilos |-> SinRespuesta]
    /\ impreso = [t \in Hilos |-> FALSE]

\* init_db on a new database file: the table is created empty and the first
\* sweep deletes nothing
InitDb ==
    /\ historial = {}
    /\ seq = 0
    /\ candado = NULL
    /\ fecha_limite = strftime_fecha(ahora.dia - 100)
    /\ proceso = "iniciando"
    /\ ultimo = [k \in Claves |-> {}]

Init ==
    /\ ahora = PrimerInstante
    /\ InitDb
    /\ InitHilos

-----------------------------------------------------------------------------
(* limpiar_datos_antiguos, run by init_db each time the process starts.    *)
(* The database file outlives the process; a start happens between         *)
(* requests.                                                               *)

limpiar_datos_antiguos ==
    LET limite == strftime_fecha(ahora.dia - 100)
    IN  /\ fecha_limite' = limite
        /\ historial' = delete_antiguos(historial, limite)

init_db ==
    /\ \A t \in Hilos : pc[t] = "idle"
    /\ limpiar_datos_antiguos
    /\ proceso' = "iniciando"
    /\ UNCHANGED <<ahora, seq, candado, pc, handler, args, source, currency,
                   rate, effective_date, fetched_at, existe, txn, eur, ret,
                   resp, ultimo, impreso>>

\* uvicorn.run(app, ...): the server starts taking requests
uvicorn_run ==
    /\ proceso = "iniciando"
    /\ proceso' = "sirviendo"
    /\ UNCHANGED <<ahora, historial, seq, candado, fecha_limite, pc, handler, args,
                   source, currency, rate, effective_date, fetched_at, existe,
                   txn, eur, ret, resp, ultimo, impreso>>

-----------------------------------------------------------------------------
(* guardar_tasa(source, currency, rate), one step per statement that reads *)
(* the clock or touches the database                                       *)

\* the caller's part: bind the parameters and enter the function
llamar_guardar(t, s, c, r, vuelta) ==
    /\ source' = [source EXCEPT ![t] = s]
    /\ currency' = [currency EXCEPT ![t] = c]
    /\ rate' = [rate EXCEPT ![t] = r]
    /\ ret' = [ret EXCEPT ![t] = vuelta]
    /\ pc' = [pc EXCEPT ![t] = "gt_vigencia"]

\* effective_date = calcular_vigencia(source)
gt_vigencia(t) ==
    /\ pc[t] = "gt_vigencia"
    /\ effective_date' =
          [effective_date EXCEPT ![t] = calcular_vigencia(source[t], ahora)]
    /\ pc' = [pc EXCEPT ![t] = "gt_fetched_at"]
    /\ UNCHANGED <<ahora, historial, seq, candado, fecha_limite, proceso,
                   handler, args, source, currency, rate, fetched_at, existe,
                   txn, eur, ret, resp, ultimo, impreso>>

\* fetched_at = datetime.now().strftime(...)
gt_fetched_at(t) ==
    /\ pc[t] = "gt_fetched_at"
    /\ fetched_at' = [fetched_at EXCEPT ![t] = strftime_ts(ahora)]
    /\ pc' = [pc EXCEPT ![t] = "gt_select"]
    /\ UNCHANGED <<ahora, historial, seq, candado, fecha_limite, proceso,
                   handler, args, source, currency, rate, effective_date,
                   existe, txn, eur, ret, resp, ultimo, impreso>>

\* c.execute("SELECT id ..."); existe = c.fetchone()
gt_select(t) ==
    /\ pc[t] = "gt_select"
    /\ LET filas == select_existe(historial, source[t], currency[t],
                                  effective_date[t])
       IN  IF filas = {}
           THEN existe' = [existe EXCEPT ![t] = <<>>]
           ELSE \E r \in filas : existe' = [existe EXCEPT ![t] = <<r.id>>]
    /\ pc' = [pc EXCEPT ![t] = "gt_write"]
    /\ UNCHANGED <<ahora, historial, seq, candado, fecha_limite, proceso,
                   handler, args, source, currency, rate, effective_date,
                   fetched_at, txn, eur, ret, resp, ultimo, impreso>>

\* the statement guardar_tasa executes after the SELECT
escritura_siempre_insert(t) ==
    [op |-> "insert",
     fila |-> Fila(seq + 1, source[t], currency[t], rate[t],
                   effective_date[t], fetched_at[t])]

escritura_sin_fetched_at(t) ==
    IF existe[t] # <<>>
    THEN [op |-> "update", id |-> existe[t][1], rate |-> rate[t],
          fetched_at |->
              (CHOOSE r \in historial : r.id = existe[t][1]).fetched_at]
    ELSE [op |-> "insert",
          fila |-> Fila(seq + 1, source[t], currency[t], rate[t],
                        effective_date[t], fetched_at[t])]

escritura(t) ==
    IF existe[t] # <<>>
    THEN [op |-> "update", id |-> existe[t][1], rate |-> rate[t],
          fetched_at |-> fetched_at[t]]
    ELSE [op |-> "insert",
          fila |-> Fila(seq + 1, source[t], currency[t], rate[t],
                        effective_date[t], fetched_at[t])]

\* if existe: UPDATE ... WHERE id=?  else: INSERT ...
\* The statement opens the connection's transaction and takes the write
\* lock; it waits while another connection holds it.
gt_write(t) ==
    /\ pc[t] = "gt_write"
    /\ candado = NULL
    /\ escritura(t).op = "insert" => seq < MaxId
    /\ txn' = [txn EXCEPT ![t] = escritura(t)]
    /\ candado' = t
    /\ pc' = [pc EXCEPT ![t] = "gt_commit"]
    /\ UNCHANGED <<ahora, historial, seq, fecha_limite, proceso, handler, args,
                   source, currency, rate, effective_date, fetched_at,
                   existe, eur, ret, resp, ultimo, impreso>>

\* the wait for the write lock times out: sqlite3.OperationalError, caught
\* by "except Exception", printed, and guardar_tasa returns
gt_busy(t) ==
    /\ pc[t] = "gt_write"
    /\ candado \notin {NULL, t}
    /\ pc' = [pc EXCEPT ![t] = ret[t]]
    /\ source' = [source EXCEPT ![t] = NULL]
    /\ currency' = [currency EXCEPT ![t] = NULL]
    /\ rate' = [rate EXCEPT ![t] = 0]
    /\ effective_date' = [effective_date EXCEPT ![t] = <<>>]
    /\ fetched_at' = [fetched_at EXCEPT ![t] = <<>>]
    /\ existe' = [existe EXCEPT ![t] = <<>>]
    /\ ret' = [ret EXCEPT ![t] = NULL]
    /\ impreso' = [impreso EXCEPT ![t] = TRUE]
    /\ UNCHANGED <<ahora, historial, seq, candado, fecha_limite, proceso,
                   handler, args, txn, eur, resp, ultimo>>

\* a statement of the try block raises for another reason (the file is
\* read-only, the disk is full, the database is corrupt): the same
\* "except Exception" prints it and guardar_tasa returns; the connection is
\* dropped with its uncommitted write
gt_error(t) ==
    /\ pc[t] \in {"gt_select", "gt_write", "gt_commit"}
    /\ txn' = [txn EXCEPT ![t] = SinEscritura]
    /\ candado' = IF candado = t THEN NULL ELSE candado
    /\ pc' = [pc EXCEPT ![t] = ret[t]]
    /\ source' = [source EXCEPT ![t] = NULL]
    /\ currency' = [currency EXCEPT ![t] = NULL]
    /\ rate' = [rate EXCEPT ![t] = 0]
    /\ effective_date' = [effective_date EXCEPT ![t] = <<>>]
    /\ fetched_at' = [fetched_at EXCEPT ![t] = <<>>]
    /\ existe' = [existe EXCEPT ![t] = <<>>]
    /\ ret' = [ret EXCEPT ![t] = NULL]
    /\ impreso' = [impreso EXCEPT ![t] = TRUE]
    /\ UNCHANGED <<ahora, historial, seq, fecha_limite, proceso, handler,
                   args, eur, resp, ultimo>>

\* conn.commit()
gt_commit(t) ==
    /\ pc[t] = "gt_commit"
    /\ historial' = aplicar(historial, txn[t])
    /\ seq' = IF txn[t].op = "insert" THEN txn[t].fila.id ELSE seq
    /\ candado' = NULL
    /\ pc' = [pc EXCEPT ![t] = "gt_close"]
    /\ UNCHANGED <<ahora, fecha_limite, proceso, handler, args, source,
                   currency, rate, effective_date, fetched_at, existe, txn,
                   eur, ret, resp, ultimo, impreso>>

\* conn.close() and the return to actualizar_tasas
gt_close(t) ==
    /\ pc[t] = "gt_close"
    /\ ultimo' = [ultimo EXCEPT ![<<source[t], currency[t]>>] =
                     {[effective_date |-> effective_date[t],
                       rate |-> rate[t], fetched_at |-> fetched_at[t]]}]
    /\ pc' = [pc EXCEPT ![t] = ret[t]]
    /\ source' = [source EXCEPT ![t] = NULL]
    /\ currency' = [currency EXCEPT ![t] = NULL]
    /\ rate' = [rate EXCEPT ![t] = 0]
    /\ effective_date' = [effective_date EXCEPT ![t] = <<>>]
    /\ fetched_at' = [fetched_at EXCEPT ![t] = <<>>]
    /\ existe' = [existe EXCEPT ![t] = <<>>]
    /\ txn' = [txn EXCEPT ![t] = SinEscritura]
    /\ ret' = [ret EXCEPT ![t] = NULL]
    /\ UNCHANGED <<ahora, historial, seq, candado, fecha_limite, proceso,
                   handler, args, eur, resp, impreso>>

-----------------------------------------------------------------------------
(* actualizar_tasas *)

\* requests.get(bcv) answers 200 and both rates parse:
\* guardar_tasa("BCV", "USD", usd) is called, eur waits in its local
bcv_ok(t) ==
    /\ pc[t] = "bcv_get"
    /\ \E usd \in Tasas, e \in Tasas :
          /\ eur' = [eur EXCEPT ![t] = e]
          /\ llamar_guardar(t, "BCV", "USD", usd, "bcv_eur")
    /\ UNCHANGED <<ahora, historial, seq, candado, fecha_limite, proceso,
                   handler, args, effective_date, fetched_at, existe, txn,
                   resp, ultimo, impreso>>

\* a fetch that fails at the second rate after the first was already
\* recorded: USD is stored, EUR is not
bcv_falla_parcial(t) ==
    /\ pc[t] = "bcv_get"
    /\ \E usd \in Tasas : llamar_guardar(t, "BCV", "USD", usd, "bn_post")
    /\ UNCHANGED <<ahora, historial, seq, candado, fecha_limite, proceso,
                   handler, args, effective_date, fetched_at, existe, txn,
                   eur, resp, ultimo, impreso>>

\* the request raises or times out, the status is not 200, or a rate does
\* not parse: nothing is recorded for BCV
bcv_falla(t) ==
    /\ pc[t] = "bcv_get"
    /\ pc' = [pc EXCEPT ![t] = "bn_post"]
    /\ UNCHANGED <<ahora, historial, seq, candado, fecha_limite, proceso,
                   handler, args, source, currency, rate, effective_date,
                   fetched_at, existe, txn, eur, ret, resp, ultimo, impreso>>

\* guardar_tasa("BCV", "EUR", eur)
bcv_eur(t) ==
    /\ pc[t] = "bcv_eur"
    /\ llamar_guardar(t, "BCV", "EUR", eur[t], "bn_post")
    /\ eur' = [eur EXCEPT ![t] = 0]
    /\ UNCHANGED <<ahora, historial, seq, candado, fecha_limite, proceso,
                   handler, args, effective_date, fetched_at, existe, txn,
                   resp, ultimo, impreso>>

\* requests.post(binance) answers code "000000":
\* guardar_tasa("BINANCE", "USDT", promedio)
binance_ok(t) ==
    /\ pc[t] = "bn_post"
    /\ \E promedio \in Tasas :
          llamar_guardar(t, "BINANCE", "USDT", promedio, "act_ret")
    /\ UNCHANGED <<ahora, historial, seq, candado, fecha_limite, proceso,
                   handler, args, effective_date, fetched_at, existe, txn,
                   eur, resp, ultimo, impreso>>

\* the request raises or times out, or the payload is not the expected one
binance_falla(t) ==
    /\ pc[t] = "bn_post"
    /\ pc' = [pc EXCEPT ![t] = "act_ret"]
    /\ UNCHANGED <<ahora, historial, seq, candado, fecha_limite, proceso,
                   handler, args, source, currency, rate, effective_date,
                   fetched_at, existe, txn, eur, ret, resp, ultimo, impreso>>

-----------------------------------------------------------------------------
(* The endpoints *)

\* the fuente and moneda parameters requests carry
ParesConsulta == {<<"BCV", "USD">>, <<"bcv", "usd">>, <<"BINANCE", "USDT">>}

\* GET /api/tasas
trigger_update(t) ==
    /\ pc[t] = "idle"
    /\ proceso = "sirviendo"
    /\ handler' = [handler EXCEPT ![t] = "tasas"]
    /\ pc' = [pc EXCEPT ![t] = "bcv_get"]
    /\ UNCHANGED <<ahora, historial, seq, candado, fecha_limite, proceso,
                   args, source, currency, rate, effective_date, fetched_at,
                   existe, txn, eur, ret, resp, ultimo, impreso>>

\* "exacto" if es_exacto else "fallback_historico"
metodo_siempre_exacto(dato, fecha) == "exacto"

metodo(dato, fecha) ==
    IF dato.effective_date = fecha THEN "exacto" ELSE "fallback_historico"

\* the body consultar_smart returns when the query gave a row
respuesta(dato, fecha, fuente, moneda) ==
    [status |-> 200, fecha |-> fecha, fuente |-> fuente, moneda |-> moneda,
     tasa |-> dato.rate, vigencia |-> dato.effective_date,
     capturado |-> dato.fetched_at, metodo |-> metodo(dato, fecha)]

\* GET /api/consultar?fecha=..&fuente=..&moneda=..: the query, and either
\* the answer or the start of the refresh that precedes the 404
consultar_smart(t) ==
    /\ pc[t] = "idle"
    /\ proceso = "sirviendo"
    /\ \E d \in FechasConsulta, par \in ParesConsulta :
          LET fecha == strftime_fecha(d)
              fuente == par[1]
              moneda == par[2]
              datos == consulta_fallback(historial, upper(fuente),
                                         upper(moneda), fecha)
          IN  IF datos # {}
              THEN /\ \E dato \in datos :
                         resp' = [resp EXCEPT ![t] =
                             respuesta(dato, fecha, fuente, moneda)]
                   /\ pc' = [pc EXCEPT ![t] = "fin"]
                   /\ UNCHANGED args
              ELSE /\ args' = [args EXCEPT ![t] = <<fecha, fuente, moneda>>]
                   /\ pc' = [pc EXCEPT ![t] = "sin_dato"]
                   /\ UNCHANGED resp
    /\ handler' = [handler EXCEPT ![t] = "consultar"]
    /\ UNCHANGED <<ahora, historial, seq, candado, fecha_limite, proceso,
                   source, currency, rate, effective_date, fetched_at, existe,
                   txn, eur, ret, ultimo, impreso>>

\* the query raises (get_db, execute or fetchone): consultar_smart has no
\* try, the exception leaves the handler and the framework answers 500
consultar_error(t) ==
    /\ pc[t] = "idle"
    /\ proceso = "sirviendo"
    /\ handler' = [handler EXCEPT ![t] = "consultar"]
    /\ resp' = [resp EXCEPT ![t] = [status |-> 500]]
    /\ pc' = [pc EXCEPT ![t] = "fin"]
    /\ UNCHANGED <<ahora, historial, seq, candado, fecha_limite, proceso,
                   args, source, currency, rate, effective_date, fetched_at,
                   existe, txn, eur, ret, ultimo, impreso>>

\* a handler that raises the 404 at once, without the refresh
sin_dato_inmediato(t) ==
    /\ pc[t] = "sin_dato"
    /\ args' = [args EXCEPT ![t] = <<>>]
    /\ resp' = [resp EXCEPT ![t] = [status |-> 404]]
    /\ pc' = [pc EXCEPT ![t] = "fin"]
    /\ UNCHANGED <<ahora, historial, seq, candado, fecha_limite, proceso,
                   handler, source, currency, rate, effective_date,
                   fetched_at, existe, txn, eur, ret, ultimo, impreso>>

\* else: actualizar_tasas() is called before the 404
sin_dato(t) ==
    /\ pc[t] = "sin_dato"
    /\ args' = [args EXCEPT ![t] = <<>>]
    /\ pc' = [pc EXCEPT ![t] = "bcv_get"]
    /\ UNCHANGED <<ahora, historial, seq, candado, fecha_limite, proceso,
                   handler, source, currency, rate, effective_date,
                   fetched_at, existe, txn, eur, ret, resp, ultimo, impreso>>

\* a handler that refreshes again after a miss instead of answering
act_ret_reintenta(t) ==
    /\ pc[t] = "act_ret"
    /\ IF handler[t] = "tasas"
       THEN /\ resp' = [resp EXCEPT ![t] = [status |-> 200, body |-> "updated"]]
            /\ pc' = [pc EXCEPT ![t] = "fin"]
       ELSE /\ pc' = [pc EXCEPT ![t] = "bcv_get"]
            /\ UNCHANGED resp
    /\ UNCHANGED <<ahora, historial, seq, candado, fecha_limite, proceso,
                   handler, args, source, currency, rate, effective_date,
                   fetched_at, existe, txn, eur, ret, ultimo, impreso>>

\* actualizar_tasas has returned: trigger_update answers "updated",
\* consultar_smart raises HTTPException(404)
act_ret(t) ==
    /\ pc[t] = "act_ret"
    /\ resp' = [resp EXCEPT ![t] =
                  IF handler[t] = "tasas"
                  THEN [status |-> 200, body |-> "updated"]
                  ELSE [status |-> 404]]
    /\ pc' = [pc EXCEPT ![t] = "fin"]
    /\ UNCHANGED <<ahora, historial, seq, candado, fecha_limite, proceso,
                   handler, args, source, currency, rate, effective_date,
                   fetched_at, existe, txn, eur, ret, ultimo, impreso>>

\* the response is sent and the thread takes the next request
fin(t) ==
    /\ pc[t] = "fin"
    /\ pc' = [pc EXCEPT ![t] = "idle"]
    /\ handler' = [handler EXCEPT ![t] = NULL]
    /\ resp' = [resp EXCEPT ![t] = SinRespuesta]
    /\ impreso' = [impreso EXCEPT ![t] = FALSE]
    /\ UNCHANGED <<ahora, historial, seq, candado, fecha_limite, proceso,
                   args, source, currency, rate, effective_date, fetched_at, existe,
                   txn, eur, ret, ultimo>>

-----------------------------------------------------------------------------
(* Specifications *)

\* the steps of one request, from its arrival to its response
Peticion(t) ==
    \/ trigger_update(t)
    \/ consultar_smart(t)
    \/ sin_dato(t)
    \/ bcv_ok(t)
    \/ bcv_falla(t)
    \/ bcv_eur(t)
    \/ binance_ok(t)
    \/ binance_falla(t)
    \/ gt_vigencia(t)
    \/ gt_fetched_at(t)
    \/ gt_select(t)
    \/ gt_write(t)
    \/ gt_commit(t)
    \/ gt_close(t)
    \/ act_ret(t)

\* one request at a time, any number of them: every operation runs to
\* completion before the next starts
Next == Tick \/ init_db \/ uvicorn_run \/ Peticion(H1) \/ fin(H1)

Spec == Init /\ [][Next]_vars

\* two requests side by side on a new database, one per thread, within one
\* second of the clock: their steps interleave in every order, and a wait
\* for the write lock may time out
NextConc ==
    \/ uvicorn_run
    \/ \E t \in Hilos : Peticion(t) \/ gt_busy(t)

SpecConc == Init /\ [][NextConc]_vars

\* one request at a time within one second of the clock, on a store whose
\* statements may fail
NextFallo ==
    \/ uvicorn_run
    \/ Peticion(H1)
    \/ gt_error(H1)
    \/ consultar_error(H1)
    \/ fin(H1)

SpecFallo == Init /\ [][NextFallo]_vars

\* one request on a new database while the clock runs: the thread is
\* scheduled until it has answered, and requests.get (timeout=10) and
\* requests.post (timeout=5) return or raise, so a step that can be taken
\* is taken
NextUna == Tick \/ uvicorn_run \/ Peticion(H1)

SpecUna == Init /\ [][NextUna]_vars /\ WF_vars(Peticion(H1))

\* a thread that serves /api/tasas again and again while the BCV site
\* answers and Binance does not
Escritor(t) ==
    \/ trigger_update(t)
    \/ bcv_ok(t)
    \/ bcv_falla(t)
    \/ bcv_eur(t)
    \/ binance_falla(t)
    \/ gt_vigencia(t)
    \/ gt_fetched_at(t)
    \/ gt_select(t)
    \/ gt_write(t)
    \/ gt_commit(t)
    \/ gt_close(t)
    \/ act_ret(t)
    \/ fin(t)

\* a thread that serves /api/consultar again and again; the refresh of a
\* miss finds both sites down
Lector(t) ==
    \/ consultar_smart(t)
    \/ sin_dato(t)
    \/ bcv_falla(t)
    \/ binance_falla(t)
    \/ act_ret(t)
    \/ fin(t)

\* queries side by side with record operations, while the clock runs
NextLect == Tick \/ uvicorn_run \/ Escritor(H1) \/ Lector(H2)

SpecLect == Init /\ [][NextLect]_vars

\* the program started on Friday 2024-05-03 at 15:29, one minute before
\* the BCV cut-off, and kept running over the weekend: BCV refreshes and
\* queries by one thread
AntesDelCorte == Instante(<<123, 15, 29, 0>>)

InitFinde ==
    /\ ahora = AntesDelCorte
    /\ InitDb
    /\ InitHilos

NextFinde ==
    \/ Tick
    \/ uvicorn_run
    \/ Escritor(H1)
    \/ consultar_smart(H1)
    \/ sin_dato(H1)

SpecFinde == InitFinde /\ [][NextFinde]_vars

\* calcular_vigencia alone, called by guardar_tasa at any minute of a week
\* for the two sources of the program and one it does not know
FuentesVig == {"BCV", "BINANCE", "OTRO"}

InitVig ==
    /\ ahora \in InstantesVig
    /\ InitDb
    /\ pc = [t \in Hilos |-> IF t = H1 THEN "gt_vigencia" ELSE "idle"]
    /\ handler = [t \in Hilos |-> IF t = H1 THEN "tasas" ELSE NULL]
    /\ args = [t \in Hilos |-> <<>>]
    /\ \E s \in FuentesVig :
          source = [t \in Hilos |-> IF t = H1 THEN s ELSE NULL]
    /\ currency = [t \in Hilos |-> IF t = H1 THEN "USD" ELSE NULL]
    /\ \E r \in Tasas : rate = [t \in Hilos |-> IF t = H1 THEN r ELSE 0]
    /\ effective_date = [t \in Hilos |-> <<>>]
    /\ fetched_at = [t \in Hilos |-> <<>>]
    /\ existe = [t \in Hilos |-> <<>>]
    /\ txn = [t \in Hilos |-> SinEscritura]
    /\ eur = [t \in Hilos |-> 0]
    /\ ret = [t \in Hilos |-> IF t = H1 THEN "act_ret" ELSE NULL]
    /\ resp = [t \in Hilos |-> SinRespuesta]
    /\ impreso = [t \in Hilos |-> FALSE]

NextVig == gt_vigencia(H1)

SpecVig == InitVig /\ [][NextVig]_vars

-----------------------------------------------------------------------------
(* Dates as the properties read them: a text YYYY-MM-DD parsed back to its *)
(* day ordinal, by the calendar and not by comparing characters            *)

Cifra(txt, i) == txt[i] - 48

RECURSIVE DiasAntesDelAnio(_)
DiasAntesDelAnio(y) ==
    IF y <= 2024 THEN 0
    ELSE DiasAntesDelAnio(y - 1) + (IF EsBisiesto(y - 1) THEN 366 ELSE 365)

RECURSIVE DiasAntesDelMes(_, _)
DiasAntesDelMes(y, m) ==
    IF m <= 1 THEN 0 ELSE DiasAntesDelMes(y, m - 1) + DiasDelMes(y, m - 1)

OrdinalDe(txt) ==
    LET y == Cifra(txt, 1) * 1000 + Cifra(txt, 2) * 100
                + Cifra(txt, 3) * 10 + Cifra(txt, 4)
        m == Cifra(txt, 6) * 10 + Cifra(txt, 7)
        d == Cifra(txt, 9) * 10 + Cifra(txt, 10)
    IN  DiasAntesDelAnio(y) + DiasAntesDelMes(y, m) + d - 1

\* the text is a date of the calendar in the form YYYY-MM-DD
EsFecha(txt) ==
    /\ Len(txt) = 10
    /\ txt[5] = 45 /\ txt[8] = 45
    /\ \A i \in {1, 2, 3, 4, 6, 7, 9, 10} : txt[i] \in 48..57
    /\ LET m == Cifra(txt, 6) * 10 + Cifra(txt, 7)
           d == Cifra(txt, 9) * 10 + Cifra(txt, 10)
           y == Cifra(txt, 1) * 1000 + Cifra(txt, 2) * 100
                   + Cifra(txt, 3) * 10 + Cifra(txt, 4)
       IN  m \in 1..12 /\ d >= 1 /\ d <= DiasDelMes(y, m)

MinutoDelDia(now) == now.hour * 60 + now.minute

\* the first Monday after day ordinal d
LunesSiguiente(d) == CHOOSE n \in (d + 1)..(d + 7) : n % 7 = 0

\* the rows of a table with one source, currency and effective date
FilasDe(tabla, s, c, e) ==
    {r \in tabla : r.source = s /\ r.currency = c /\ r.effective_date = e}

\* the rows a lookup of (fuente, moneda) on date text fecha may serve
Elegibles(tabla, fuente, moneda, fecha) ==
    {r \in tabla : /\ r.source = upper(fuente)
                   /\ r.currency = upper(moneda)
                   /\ OrdinalDe(r.effective_date) <= OrdinalDe(fecha)}

-----------------------------------------------------------------------------
(* Properties *)

\* C1: with one operation at a time (record operations and sweeps, each run
\* to completion), the table never holds two rows with the same source,
\* currency and effective date.
C1_UnaFilaPorClave ==
    \A r1 \in historial, r2 \in historial :
        (/\ r1.source = r2.source
         /\ r1.currency = r2.currency
         /\ r1.effective_date = r2.effective_date) => r1 = r2

\* a second record operation for a key has just committed its UPDATE, and
\* another key has a row too
C1_Testigo ==
    /\ pc[H1] = "gt_close"
    /\ existe[H1] # <<>>
    /\ Cardinality(historial) >= 2

\* C2: when guardar_tasa calls for the same key run side by side, the table
\* ends with one row for the key under every interleaving, never two.
C2_UpsertAtomico ==
    \A r \in historial :
        Cardinality(FilasDe(historial, r.source, r.currency,
                            r.effective_date)) = 1

\* C3: when a record operation commits after an earlier one for the same
\* source, currency and effective date, the store holds one record for the
\* key, with the rate and the captured-at of the later call.
C3_SegundaLlamadaGana ==
    \A t \in Hilos :
        (/\ pc[t] = "gt_close"
         /\ \E u \in ultimo[<<source[t], currency[t]>>] :
                u.effective_date = effective_date[t])
        => LET filas == FilasDe(historial, source[t], currency[t],
                                effective_date[t])
           IN  /\ Cardinality(filas) = 1
               /\ \A r \in filas :
                     r.rate = rate[t] /\ r.fetched_at = fetched_at[t]

\* the later call has committed a rate and a captured-at that both differ
\* from those of the earlier call for the key
C3_Testigo ==
    /\ pc[H1] = "gt_close"
    /\ \E u \in ultimo[<<source[H1], currency[H1]>>] :
          /\ u.effective_date = effective_date[H1]
          /\ u.rate # rate[H1]
          /\ u.fetched_at # fetched_at[H1]
    /\ \E r \in historial : r.rate = rate[H1] /\ r.fetched_at = fetched_at[H1]

\* C4: a lookup that returns data returns a record of the requested source
\* and currency whose effective date is the greatest one not after the
\* requested date.
C4_MasRecienteElegible ==
    \A t \in Hilos :
        (pc[t] = "fin" /\ handler[t] = "consultar" /\ resp[t].status = 200)
        => LET eleg == Elegibles(historial, resp[t].fuente, resp[t].moneda,
                                 resp[t].fecha)
           IN  \E r \in eleg :
                  /\ r.rate = resp[t].tasa
                  /\ r.effective_date = resp[t].vigencia
                  /\ r.fetched_at = resp[t].capturado
                  /\ \A q \in eleg : OrdinalDe(q.effective_date)
                                        <= OrdinalDe(r.effective_date)

\* Sunday 2024-05-05 is asked of BINANCE/USDT while the store holds its rows
\* of Friday 05-03, Saturday 05-04 and Monday 08-12: Saturday's is served
C4_Testigo ==
    /\ pc[H1] = "fin" /\ handler[H1] = "consultar" /\ resp[H1].status = 200
    /\ resp[H1].fuente = "BINANCE"
    /\ OrdinalDe(resp[H1].fecha) = 125
    /\ OrdinalDe(resp[H1].vigencia) = 124
    /\ \E r \in historial :
          r.source = "BINANCE" /\ OrdinalDe(r.effective_date) = 123
    /\ \E r \in historial :
          r.source = "BINANCE" /\ OrdinalDe(r.effective_date) = 224

\* C5: a successful lookup is marked "exacto" exactly when the date of the
\* record it returns is the requested date, and "fallback_historico"
\* otherwise.
C5_MetodoExacto ==
    \A t \in Hilos :
        (pc[t] = "fin" /\ handler[t] = "consultar" /\ resp[t].status = 200)
        => /\ resp[t].metodo \in {"exacto", "fallback_historico"}
           /\ resp[t].metodo = "exacto"
                 <=> OrdinalDe(resp[t].vigencia) = OrdinalDe(resp[t].fecha)

\* the record of Friday 2024-05-03 is served for Sunday 2024-05-05 and
\* marked as a fallback
C5_Testigo ==
    /\ pc[H1] = "fin" /\ handler[H1] = "consultar" /\ resp[H1].status = 200
    /\ OrdinalDe(resp[H1].fecha) = 125
    /\ OrdinalDe(resp[H1].vigencia) = 123
    /\ resp[H1].metodo = "fallback_historico"

\* C6: a lookup with no record of the requested source and currency dated on
\* or before the requested date returns no rate: it takes the branch that
\* ends in the 404, whose response carries no rate at all.
C6_SinDatoEs404 ==
    \A t \in Hilos :
        handler[t] = "consultar" =>
            /\ (pc[t] = "fin" /\ resp[t].status = 200)
                  => Elegibles(historial, resp[t].fuente, resp[t].moneda,
                               resp[t].fecha) # {}
            /\ (pc[t] = "fin" /\ resp[t].status # 200)
                  => resp[t] = [status |-> 404]
            /\ pc[t] # "fin" => resp[t] = SinRespuesta
            /\ pc[t] = "sin_dato"
                  => Elegibles(historial, args[t][2], args[t][3],
                               args[t][1]) = {}

\* BCV/USD is asked for Sunday 2024-05-05 while its only row is dated
\* Monday 2024-05-06: the lookup finds nothing
C6_Testigo ==
    /\ pc[H1] = "sin_dato"
    /\ args[H1][2] = "BCV" /\ args[H1][3] = "USD"
    /\ OrdinalDe(args[H1][1]) = 125
    /\ \E r \in historial :
          /\ r.source = "BCV" /\ r.currency = "USD"
          /\ OrdinalDe(r.effective_date) = 126

\* C7: for BCV on Monday to Friday, at every minute of the day: on Friday
\* from 15:30 on the date is the Monday three days later; on Monday to
\* Thursday from 16:00 on it is the next day; otherwise it is the current
\* date. Both cut-offs include their own minute.
C7_CortesBCV ==
    (/\ pc[H1] = "gt_fetched_at"
     /\ source[H1] = "BCV"
     /\ ahora.dia % 7 \in 0..4)
    => /\ EsFecha(effective_date[H1])
       /\ OrdinalDe(effective_date[H1]) =
             IF ahora.dia % 7 = 4 /\ MinutoDelDia(ahora) >= 15 * 60 + 30
                THEN ahora.dia + 3
             ELSE IF ahora.dia % 7 \in 0..3 /\ MinutoDelDia(ahora) >= 16 * 60
                THEN ahora.dia + 1
             ELSE ahora.dia

\* Friday 2024-05-03 at 15:30 sharp resolves to Monday 2024-05-06
C7_Testigo ==
    /\ pc[H1] = "gt_fetched_at"
    /\ source[H1] = "BCV"
    /\ ahora.dia = 123 /\ ahora.hour = 15 /\ ahora.minute = 30
    /\ OrdinalDe(effective_date[H1]) = 126
    /\ FechaDe(126) = [year |-> 2024, month |-> 5, day |-> 6]

\* C8: for BCV on a Saturday or a Sunday, at any time of day, the date is
\* the first Monday after it, and a Saturday resolves to the same Monday as
\* every minute of the Sunday after it.
C8_FinDeSemana ==
    (/\ pc[H1] = "gt_fetched_at"
     /\ source[H1] = "BCV"
     /\ ahora.dia % 7 \in {5, 6})
    => /\ EsFecha(effective_date[H1])
       /\ OrdinalDe(effective_date[H1]) = LunesSiguiente(ahora.dia)
       /\ OrdinalDe(effective_date[H1]) % 7 = 0
       /\ ahora.dia % 7 = 5 =>
             \A h \in {0, 15, 16, 23}, m \in {0, 29, 30, 59} :
                calcular_vigencia("BCV",
                    [dia |-> ahora.dia + 1, hour |-> h, minute |-> m,
                     second |-> 0]) = effective_date[H1]

\* Saturday 2024-05-04 at 23:59 resolves to Monday 2024-05-06
C8_Testigo ==
    /\ pc[H1] = "gt_fetched_at"
    /\ source[H1] = "BCV"
    /\ ahora.dia = 124 /\ ahora.hour = 23 /\ ahora.minute = 59
    /\ OrdinalDe(effective_date[H1]) = 126

\* C9: for every source other than BCV the date is the calendar date of the
\* current time, on every weekday and at every time of day.
C9_SinRegla ==
    (pc[H1] = "gt_fetched_at" /\ source[H1] # "BCV")
    => /\ EsFecha(effective_date[H1])
       /\ OrdinalDe(effective_date[H1]) = ahora.dia

\* BINANCE on Friday 2024-05-03 at 16:00 resolves to that Friday
C9_Testigo ==
    /\ pc[H1] = "gt_fetched_at"
    /\ source[H1] = "BINANCE"
    /\ ahora.dia = 123 /\ ahora.hour = 16 /\ ahora.minute = 0
    /\ OrdinalDe(effective_date[H1]) = 123

\* C10: a sweep deletes the records dated before the day 100 days before
\* the current date and no other: the records dated on or after that day
\* stay, with their rate and captured-at.
C10_BarridoExacto ==
    [][(proceso' = "iniciando" /\ ahora' = ahora)
         => /\ historial' =
                 {r \in historial :
                     ~ (OrdinalDe(r.effective_date) < ahora.dia - 100)}
            /\ OrdinalDe(fecha_limite') = ahora.dia - 100]_vars

\* the sweep of Monday 2024-08-12 has just run: its limit is Saturday
\* 2024-05-04, the record of that Saturday and one dated later are present,
\* and a record the table once received is gone
C10_Testigo ==
    /\ proceso = "iniciando"
    /\ ahora.dia = 224
    /\ OrdinalDe(fecha_limite) = 124
    /\ \E r \in historial : OrdinalDe(r.effective_date) = 124
    /\ \E r \in historial : OrdinalDe(r.effective_date) > 124
    /\ \A r \in historial : OrdinalDe(r.effective_date) >= 124
    /\ seq > Cardinality(historial)

-----------------------------------------------------------------------------
\* C11: a fetch that fails records nothing for its source.  The step that
\* leaves the BCV fetch either fails, and then calls no record operation and
\* changes no row, or succeeds with both rates in hand, USD entering
\* guardar_tasa and EUR held to follow it; the EUR record operation is the
\* only continuation of the USD one; the Binance fetch likewise; and a row
\* of a source appears or changes only in the commit of a record operation
\* for that source and currency.
C11_FalloSinRegistro ==
    [][\A t \in Hilos :
          /\ (pc[t] = "bcv_get" /\ pc'[t] # "bcv_get")
                => \/ /\ pc'[t] = "bn_post"
                      /\ source'[t] = NULL
                      /\ historial' = historial
                      /\ txn' = txn
                   \/ /\ pc'[t] = "gt_vigencia"
                      /\ source'[t] = "BCV" /\ currency'[t] = "USD"
                      /\ ret'[t] = "bcv_eur"
                      /\ eur'[t] \in Tasas
          /\ (pc[t] = "bcv_eur" /\ pc'[t] # "bcv_eur")
                => /\ pc'[t] = "gt_vigencia"
                   /\ source'[t] = "BCV" /\ currency'[t] = "EUR"
                   /\ rate'[t] = eur[t]
                   /\ ret'[t] = "bn_post"
          /\ (pc[t] = "bn_post" /\ pc'[t] # "bn_post")
                => \/ /\ pc'[t] = "act_ret"
                      /\ source'[t] = NULL
                      /\ historial' = historial
                      /\ txn' = txn
                   \/ /\ pc'[t] = "gt_vigencia"
                      /\ source'[t] = "BINANCE" /\ currency'[t] = "USDT"
                      /\ ret'[t] = "act_ret"
          /\ \A r \in historial' \ historial :
                \E u \in Hilos : /\ pc[u] = "gt_commit"
                                 /\ source[u] = r.source
                                 /\ currency[u] = r.currency]_vars

\* a refresh whose BCV fetch failed has reached the Binance fetch: the
\* table holds records, none of them of BCV
C11_Testigo ==
    /\ pc[H1] = "bn_post"
    /\ handler[H1] = "tasas"
    /\ historial # {}
    /\ \A r \in historial : r.source = "BINANCE"

-----------------------------------------------------------------------------
\* C12: a failure of the store during a record operation or a lookup is
\* reported to the caller: a request in which a statement of the store
\* raised answers with a server error, and never with a success or a 404.
C12_FalloReportado ==
    \A t \in Hilos :
        (pc[t] = "fin" /\ impreso[t]) => resp[t].status = 500

-----------------------------------------------------------------------------
\* how far a request is in its code: the query, the BCV fetch, the USD and
\* EUR record operations, the Binance fetch, the USDT record operation, the
\* answer
PasoGuardar(p) ==
    CASE p = "gt_vigencia" -> 1
      [] p = "gt_fetched_at" -> 2
      [] p = "gt_select" -> 3
      [] p = "gt_write" -> 4
      [] p = "gt_commit" -> 5
      [] p = "gt_close" -> 6
      [] OTHER -> 0

Rango(t) ==
    CASE pc[t] = "idle" -> 0
      [] pc[t] = "sin_dato" -> 1
      [] pc[t] = "bcv_get" -> 2
      [] pc[t] = "bcv_eur" -> 9
      [] pc[t] = "bn_post" -> 16
      [] pc[t] = "act_ret" -> 23
      [] pc[t] = "fin" -> 24
      [] OTHER -> PasoGuardar(pc[t]) +
                  (CASE ret[t] = "bcv_eur" -> 2
                     [] ret[t] = "bn_post" -> 9
                     [] OTHER -> 16)

\* C13: a miss of /api/consultar runs one refresh and then answers 404.
\* After the miss the handler enters actualizar_tasas and nothing else; each
\* of its steps moves it forward in the code, so no fetch, record operation
\* or lookup is done twice; the 404 is raised on the return of the refresh;
\* and a request that missed always comes to its 404.
C13_UnRefrescoY404 ==
    /\ [][\A t \in Hilos :
             /\ (pc[t] = "sin_dato" /\ pc'[t] # pc[t]) => pc'[t] = "bcv_get"
             /\ (handler[t] = "consultar" /\ pc'[t] # pc[t])
                   => Rango(t)' > Rango(t)
             /\ (resp'[t].status = 404 /\ resp[t].status # 404)
                   => pc[t] = "act_ret" /\ pc'[t] = "fin"]_vars
    /\ \A t \in {H1} :
          (pc[t] = "sin_dato") ~> (pc[t] = "fin" /\ resp[t].status = 404)

\* the 404 of a miss whose refresh recorded all three rates: the lookup is
\* not run again on the rows now present
C13_Testigo ==
    /\ pc[H1] = "fin"
    /\ handler[H1] = "consultar"
    /\ resp[H1].status = 404
    /\ Cardinality(historial) = 3

-----------------------------------------------------------------------------
\* the positions of a request inside actualizar_tasas and the record
\* operations it calls
EnRefresco(t) ==
    pc[t] \in {"bcv_get", "bcv_eur", "bn_post", "gt_vigencia",
               "gt_fetched_at", "gt_select", "gt_write", "gt_commit",
               "gt_close"}

\* C14, as stated: a query that finds no eligible record fails fast, it
\* reports NotFound without waiting for a refresh: a /api/consultar request
\* is never inside actualizar_tasas with its answer still to come.
C14_FalloRapido ==
    \A t \in Hilos : handler[t] = "consultar" => ~ EnRefresco(t)

\* C14, amended: a query that finds no eligible record reports NotFound
\* only when one refresh has returned: from the miss to the return of
\* actualizar_tasas the request has no answer, and its 404 is raised by the
\* step that follows that return.
C14_404TrasRefresco ==
    /\ [][\A t \in Hilos :
             (handler'[t] = "consultar" /\ resp'[t].status = 404
                 /\ resp[t].status # 404)
               => pc[t] = "act_ret"]_vars
    /\ [](\A t \in Hilos :
             (handler[t] = "consultar"
                 /\ (pc[t] \in {"sin_dato", "act_ret"} \/ EnRefresco(t)))
               => resp[t].status = 0)

\* a missed query whose refresh has returned after recording rates, the 404
\* still to be raised
C14_Testigo ==
    /\ pc[H1] = "act_ret"
    /\ handler[H1] = "consultar"
    /\ resp[H1].status = 0
    /\ \E r \in historial : r.source = "BCV"
    /\ \E r \in historial : r.source = "BINANCE"

-----------------------------------------------------------------------------
\* C15: a lookup that runs side by side with record operations never sees
\* a partly written record.  Every row version that enters the committed
\* table carries the rate and the captured-at of one and the same record
\* operation, the one committing; and the record a query answers with is
\* a row of the committed table at the moment of the query, never the
\* write a connection has pending.
C15_LecturaConsistente ==
    [][/\ \A r \in historial' \ historial :
             \E u \in Hilos :
                /\ pc[u] = "gt_commit"
                /\ r.source = source[u] /\ r.currency = currency[u]
                /\ r.effective_date = effective_date[u]
                /\ r.rate = rate[u]
                /\ r.fetched_at = fetched_at[u]
       /\ \A t \in Hilos :
             (resp'[t].status = 200 /\ handler'[t] = "consultar"
                 /\ resp'[t] # resp[t])
               => \E r \in historial :
                     /\ r.source = upper(resp'[t].fuente)
                     /\ r.currency = upper(resp'[t].moneda)
                     /\ r.effective_date = resp'[t].vigencia
                     /\ r.rate = resp'[t].tasa
                     /\ r.fetched_at = resp'[t].capturado]_vars

\* a query has been answered with the committed record of a key while
\* another thread holds an uncommitted UPDATE of that record with another
\* rate and another captured-at
C15_Testigo ==
    /\ pc[H2] = "fin"
    /\ resp[H2].status = 200
    /\ pc[H1] = "gt_commit"
    /\ txn[H1].op = "update"
    /\ \E r \in historial :
          /\ r.id = txn[H1].id
          /\ r.rate = resp[H2].tasa
          /\ r.fetched_at = resp[H2].capturado
          /\ r.effective_date = resp[H2].vigencia
          /\ txn[H1].rate # r.rate
          /\ txn[H1].fetched_at # r.fetched_at

-----------------------------------------------------------------------------
\* a thread is refreshing a source from the fetch to the return of the last
\* record operation the fetch feeds
RefrescandoBCV(t) ==
    \/ pc[t] \in {"bcv_get", "bcv_eur"}
    \/ source[t] = "BCV"

RefrescandoBinance(t) ==
    \/ pc[t] = "bn_post"
    \/ source[t] = "BINANCE"

\* C16: refreshes are deduplicated per source: whatever the interleaving
\* of /api/tasas requests and /api/consultar misses, no two threads are
\* refreshing the same source at the same time.
C16_UnRefrescoPorFuente ==
    \A t, u \in Hilos :
        t # u => /\ ~ (RefrescandoBCV(t) /\ RefrescandoBCV(u))
                 /\ ~ (RefrescandoBinance(t) /\ RefrescandoBinance(u))

-----------------------------------------------------------------------------
\* the step of a sweep: init_db runs at the current time
PasoBarrido == proceso' = "iniciando" /\ ahora' = ahora

\* the commit of thread t's record operation
PasoRegistro(t) == pc[t] = "gt_commit" /\ pc'[t] = "gt_close"

\* row r belongs to the key of thread t's record operation
DeLaClave(r, t) ==
    /\ r.source = source[t]
    /\ r.currency = currency[t]
    /\ r.effective_date = effective_date[t]

\* C17: records are destroyed only by the sweep and changed only by a
\* record operation for their own key.  A row id that leaves the table
\* leaves it in a sweep; a row whose content changes keeps its key and
\* changes in the commit of a record operation for that key; that commit
\* leaves every row of another key as it was and removes none; the sweep
\* changes no row it keeps; and a query that answers with a record leaves
\* the table as it was.
C17_Marco ==
    [][/\ (\E r \in historial : \A q \in historial' : q.id # r.id)
            => PasoBarrido
       /\ \A r \in historial, q \in historial' :
             (q.id = r.id /\ q # r)
               => /\ q = [r EXCEPT !.rate = q.rate,
                                    !.fetched_at = q.fetched_at]
                  /\ \E t \in Hilos : PasoRegistro(t) /\ DeLaClave(r, t)
       /\ \A t \in Hilos :
             PasoRegistro(t)
               => /\ \A r \in historial : ~ DeLaClave(r, t) => r \in historial'
                  /\ \A r \in historial : \E q \in historial' : q.id = r.id
       /\ PasoBarrido => historial' \subseteq historial
       /\ \A t \in Hilos :
             (resp'[t].status = 200 /\ handler'[t] = "consultar"
                 /\ resp'[t] # resp[t])
               => historial' = historial /\ seq' = seq]_vars

\* an UPDATE has just committed for one key while a record of another key,
\* captured at another time, stands as it was
C17_Testigo ==
    /\ pc[H1] = "gt_close"
    /\ existe[H1] # <<>>
    /\ \E r \in historial :
          /\ DeLaClave(r, H1)
          /\ r.fetched_at = fetched_at[H1]
    /\ \E q \in historial :
          /\ ~ DeLaClave(q, H1)
          /\ q.fetched_at # fetched_at[H1]

-----------------------------------------------------------------------------
\* C18: the sweep is idempotent.  Sweeping what a sweep has left, with the
\* same limit, removes nothing; a sweep that runs again at the date of the
\* sweep before it, with no request served in between, leaves the table as
\* it is; and so does a sweep that finds no record dated before its limit.
C18_BarridoIdempotente ==
    [][PasoBarrido
         => /\ delete_antiguos(historial', fecha_limite') = historial'
            /\ (proceso = "iniciando"
                   /\ OrdinalDe(fecha_limite) = ahora.dia - 100)
                 => historial' = historial
            /\ (\A r \in historial :
                    ~ (OrdinalDe(r.effective_date) < ahora.dia - 100))
                 => historial' = historial]_vars

\* a sweep has deleted a record and kept others, no request has been
\* served since and the date is the same: init_db can run a second sweep
C18_Testigo ==
    /\ proceso = "iniciando"
    /\ \A t \in Hilos : pc[t] = "idle"
    /\ OrdinalDe(fecha_limite) = ahora.dia - 100
    /\ historial # {}
    /\ seq > Cardinality(historial)

-----------------------------------------------------------------------------
\* Saturday or Sunday, as a day ordinal counted from a Monday
FinDeSemana(d) == d % 7 \in {5, 6}

\* at every minute of a week the date calcular_vigencia gives BCV is a
\* day from Monday to Friday
VigenciaBCVHabil ==
    \A a \in InstantesVig :
        ~ FinDeSemana(OrdinalDe(calcular_vigencia("BCV", a)))

\* C19: the effective date resolved for BCV is never a Saturday or a
\* Sunday, at any current time; so no BCV record of the table is dated on
\* a weekend, and a BCV query for a weekend date is never answered as
\* exact.
C19_BCVSinFinDeSemana ==
    /\ VigenciaBCVHabil
    /\ \A t \in Hilos :
          (source[t] = "BCV" /\ effective_date[t] # <<>>)
            => ~ FinDeSemana(OrdinalDe(effective_date[t]))
    /\ \A r \in historial :
          r.source = "BCV" => ~ FinDeSemana(OrdinalDe(r.effective_date))
    /\ \A t \in Hilos :
          (resp[t].status = 200 /\ handler[t] = "consultar"
              /\ upper(resp[t].fuente) = "BCV"
              /\ FinDeSemana(OrdinalDe(resp[t].fecha)))
            => resp[t].metodo # "exacto"

\* a BCV query for Sunday 2024-05-05 is answered with the record of Friday
\* 2024-05-03, as a fallback, while a BCV record captured on Saturday is
\* in the table, dated Monday 2024-05-06
C19_Testigo ==
    /\ pc[H1] = "fin"
    /\ handler[H1] = "consultar"
    /\ resp[H1].status = 200
    /\ upper(resp[H1].fuente) = "BCV"
    /\ OrdinalDe(resp[H1].fecha) = 125
    /\ OrdinalDe(resp[H1].vigencia) = 123
    /\ resp[H1].metodo = "fallback_historico"
    /\ \E r \in historial :
          /\ r.source = "BCV"
          /\ OrdinalDe(r.effective_date) = 126
          /\ r.fetched_at = strftime_ts(Instante(<<124, 10, 0, 0>>))

-----------------------------------------------------------------------------
\* the clock reading a stored text YYYY-MM-DD HH:MM:SS stands for
InstanteDe(txt) ==
    [dia |-> OrdinalDe(SubSeq(txt, 1, 10)),
     hour |-> Cifra(txt, 12) * 10 + Cifra(txt, 13),
     minute |-> Cifra(txt, 15) * 10 + Cifra(txt, 16),
     second |-> Cifra(txt, 18) * 10 + Cifra(txt, 19)]

\* C20: every record guardar_tasa writes has as its effective date the
\* date resolved for its source at the time stored in its fetched_at,
\* although the clock is read once for each and may advance in between;
\* so a BINANCE record is dated on the calendar date of its fetched_at.
C20_VigenciaDeLaCaptura ==
    \A r \in historial :
        /\ r.effective_date
              = calcular_vigencia(r.source, InstanteDe(r.fetched_at))
        /\ r.source = "BINANCE"
              => OrdinalDe(r.effective_date) = InstanteDe(r.fetched_at).dia

=============================================================================
